---- MODULE Spec2Model ----
(***************************************************************************)
(* Event ticket platform: the ticket inventory of an event and the order   *)
(* life cycle, as implemented by app/api/orders.py, app/api/events.py,     *)
(* app/services/order_service.py, app/services/event_service.py,           *)
(* app/services/payment_service.py, app/services/notification_service.py,  *)
(* app/tasks/payment_tasks.py and app/tasks/email_tasks.py.                *)
(*                                                                         *)
(* The database (PostgreSQL, READ COMMITTED) is the shared state.  Every   *)
(* HTTP request runs in its own SQLAlchemy session: an object read by the  *)
(* session keeps the values it was loaded with until the session commits,  *)
(* and a commit writes the attributes the handler assigned.  A handler is  *)
(* therefore a sequence of steps, each one database read or one commit     *)
(* together with the local computation that follows it; handlers of        *)
(* different requests interleave between steps.  Two consecutive           *)
(* statements are folded into one step only when one of them is a write    *)
(* that reads nothing and the other touches a different table.             *)
(***************************************************************************)
EXTENDS Integers, Sequences, FiniteSets, TLC

\* ---------------------------------------------------------------- bounds
MaxCap == 2        \* largest total_capacity / order quantity drawn as input
MaxOrders == 1     \* orders inserted in a behaviour of Spec
MaxStock == 2      \* orders inserted in a behaviour of SpecInventory
MaxStamps == 2     \* distinct paid_at timestamps one order can receive
MaxPidLen == 2     \* longest payment_id, counted in ":refund:"-joined parts
MaxAttempts == 3   \* largest max_attempts given to the retry decorator
MaxDelay == 3      \* largest initial delay given to the retry decorator
MaxBackoff == 3    \* largest backoff multiplier given to the retry decorator

Slots == {1, 2}    \* request handlers that can be in flight together
EventIds == {1}    \* events are independent of each other: one is modelled

\* ------------------------------------------------------------ order status
PENDING == "pending"
PAID == "paid"
CANCELED == "canceled"
REFUNDED == "refunded"
OrderStatus == {PENDING, PAID, CANCELED, REFUNDED}

\* -------------------------------------------------------------- values
\* payment_id is a string or None.  A string is modelled as the sequence of
\* its parts when split at ":refund:"; None is the empty sequence.
NoneId == << >>
\* paid_at is None (0) or the n-th distinct timestamp written to the order.
NoTime == 0
\* an attribute the handler does not write at commit
NoWrite == -1
Unset == "unset"

PayToken(k) == <<"pay_", k>>
PaymentToken(k) == <<"payment_", k>>
AdminToken == <<"adm", 0>>
NoneToken == <<"None", 0>>
PlaceholderRefund == <<"refund_123", 0>>
GeneratedRefund == <<"ref_", 0>>

Min(a, b) == IF a < b THEN a ELSE b

VARIABLES
    events,         \* events table: id -> row
    orders,         \* orders table: id -> row
    next_order_id,  \* the orders table's id sequence
    next_event_id,  \* the events table's id sequence
    req,            \* per handler slot: position and session-local values
    resp,           \* the response produced by the last step, if observed
    trip,           \* observer: a create followed at once by its cancel
    task            \* the call of a retry-wrapped background task, if any

vars == <<events, orders, next_order_id, next_event_id, req, resp, trip, task>>

Idle == [pc |-> "idle", event_id |-> 0, quantity |-> 0, order_id |-> 0,
         new_total |-> NoWrite, new_available |-> NoWrite, new_payment_id |-> NoneId]
\* The responses the properties below observe; any other response, and a step
\* that sends none, leaves resp at NoResp.
Observed == {"created", "inventory_error", "paid", "already_paid", "payment_failed",
             "order_canceled", "canceled", "already_canceled", "capacity_violation",
             "notified", "notification_failed", "forbidden"}
NoResp == [code |-> "none", payment_id |-> NoneId]
Resp(op, code) == IF code \in Observed THEN [code |-> code, payment_id |-> NoneId] ELSE NoResp
NoTrip == [phase |-> "none", slot |-> 0, order_id |-> 0, before |-> 0, paid |-> FALSE]
NoResult == [success |-> FALSE, payment_id |-> NoneId]
\* no task call: the value of task while only request handlers run
NoTask == [kind |-> "none", pc |-> "idle", max_attempts |-> 0, mtries |-> 0, mdelay |-> 0,
           delay |-> 0, backoff |-> 0, sleeps |-> << >>,
           slept |-> 0, script |-> << >>, calls |-> 0, gateway_calls |-> 0,
           status_updates |-> 0, order_id |-> 0, definition |-> "none",
           payment_method |-> "none", details_ok |-> FALSE, amount_ok |-> TRUE,
           payment_id |-> NoneId, gateway_result |-> NoResult, result |-> <<"none", 0>>]

Init ==
    /\ events = << >>
    /\ orders = << >>
    /\ next_order_id = 1
    /\ next_event_id = 1
    /\ req = [r \in Slots |-> Idle]
    /\ resp = NoResp
    /\ trip = NoTrip
    /\ task = NoTask

\* ------------------------------------------------------------ table helpers
\* EventService.get: the event row of that id, if any
EventFound(e) == e \in DOMAIN events
\* OrderService.get: the handlers call it, the service's source does not define
\* it; it is the lookup of the order row by id, as EventService.get is
OrderFound(o) == o \in DOMAIN orders
Put(table, id, row) == [x \in (DOMAIN table) \cup {id} |-> IF x = id THEN row ELSE table[x]]
Remove_Nothing(table, id) == table
Remove(table, id) == [x \in (DOMAIN table) \ {id} |-> table[x]]

\* ------------------------------------------------------------ observer
\* trip follows one order through "created by a request that ran alone, then
\* (possibly) paid by the next request, then canceled by the next request,
\* each of which ran alone too": before is the event's available_tickets when
\* the create request began, paid tells whether the payment took place.
AllIdle == \A s \in Slots : req[s].pc = "idle"
TripBegins(r) == AllIdle /\ req'[r].pc = "create_order_insert"
TripNext ==
    LET r == trip.slot IN
    IF trip.phase = "creating" /\ req[r].pc = "create_order_insert"
          /\ req'[r].pc = "create_order_load"
    THEN [trip EXCEPT !.order_id = next_order_id]
    ELSE IF trip.phase = "creating" /\ req[r].pc = "create_order_load"
          /\ req'[r].pc = "create_order_reserve"
    THEN trip
    ELSE IF trip.phase = "creating" /\ req[r].pc = "create_order_reserve"
          /\ req'[r].pc = "idle" /\ resp'.code = "created"
    THEN [trip EXCEPT !.phase = "created"]
    ELSE IF trip.phase = "created" /\ ~trip.paid /\ AllIdle
          /\ \E c \in Slots : req'[c].pc = "process_payment_apply"
                                /\ req'[c].order_id = trip.order_id
    THEN [trip EXCEPT !.phase = "paying",
                      !.slot = CHOOSE c \in Slots : req'[c].pc = "process_payment_apply"]
    ELSE IF trip.phase = "paying" /\ req[r].pc = "process_payment_apply"
          /\ req'[r].pc = "idle" /\ resp'.code = "paid"
    THEN [trip EXCEPT !.phase = "created", !.paid = TRUE]
    ELSE IF trip.phase = "created" /\ AllIdle
          /\ \E c \in Slots : req'[c].pc = "cancel_order_commit" /\ req'[c].order_id = trip.order_id
    THEN [trip EXCEPT !.phase = "canceling",
                      !.slot = CHOOSE c \in Slots : req'[c].pc = "cancel_order_commit"]
    ELSE IF trip.phase = "canceling" /\ req[r].pc = "cancel_order_commit"
          /\ req'[r].pc = "cancel_order_load"
    THEN trip
    ELSE IF trip.phase = "canceling" /\ req[r].pc = "cancel_order_load"
          /\ req'[r].pc = "cancel_order_release"
    THEN trip
    ELSE IF trip.phase = "canceling" /\ req[r].pc # "idle" /\ req'[r].pc = "idle"
          /\ resp'.code = "canceled"
    THEN [trip EXCEPT !.phase = "returned"]
    ELSE IF \E c \in Slots : TripBegins(c)
    THEN [phase |-> "creating", slot |-> CHOOSE c \in Slots : TripBegins(c), order_id |-> 0,
          paid |-> FALSE,
          before |-> events[req'[CHOOSE c \in Slots : TripBegins(c)].event_id].available_tickets]
    ELSE NoTrip


\* a handler step that ends the request with a response
Finish(r, op, code) ==
    /\ req' = [req EXCEPT ![r] = Idle]
    /\ resp' = Resp(op, code)
    /\ trip' = TripNext
    /\ task' = task

\* ... with a response that carries the order's payment_id
FinishWith(r, op, code, payment_id) ==
    /\ req' = [req EXCEPT ![r] = Idle]
    /\ resp' = [Resp(op, code) EXCEPT !.payment_id = payment_id]
    /\ trip' = TripNext
    /\ task' = task

\* a handler step after which the request goes on
Goto(r, rec) ==
    /\ req' = [req EXCEPT ![r] = rec]
    /\ resp' = NoResp
    /\ trip' = TripNext
    /\ task' = task

\* a request or task that is a single step
Reply(op, code) ==
    /\ req' = req
    /\ resp' = Resp(op, code)
    /\ trip' = TripNext
    /\ task' = task

\* --------------------------------------------------------- EventService
\* EventService.create: a new event starts with every ticket available.
NewEvent(cap, published) ==
    [total_capacity |-> cap, available_tickets |-> cap,
     is_published |-> published, is_canceled |-> FALSE]

\* EventService.decrease_available_tickets, the checks before the write.
DecreaseAllowed_IgnoresCanceled(tbl, e, quantity) ==
    e \in DOMAIN tbl /\ tbl[e].available_tickets >= quantity
DecreaseAllowed(tbl, e, quantity) ==
    /\ e \in DOMAIN tbl
    /\ ~tbl[e].is_canceled
    /\ tbl[e].available_tickets >= quantity

\* EventService.decrease_available_tickets, the value assigned.
DecreaseValue_ByOne(ev, quantity) == ev.available_tickets - 1
DecreaseValue(ev, quantity) == ev.available_tickets - quantity

\* EventService.increase_available_tickets, the value assigned.
IncreaseValue_Unclamped(ev, quantity) == ev.available_tickets + quantity
IncreaseValue(ev, quantity) == Min(ev.available_tickets + quantity, ev.total_capacity)

\* EventService.update with total_capacity in the update: the value assigned
\* to available_tickets, or NoWrite when the ValueError is raised.
ResizeValue_Clamped(ev, new_capacity) ==
    LET new_available == ev.available_tickets + (new_capacity - ev.total_capacity)
    IN  IF new_available < 0 THEN 0 ELSE new_available
ResizeValue(ev, new_capacity) ==
    LET capacity_diff == new_capacity - ev.total_capacity
        new_available == ev.available_tickets + capacity_diff
        tickets_sold == ev.total_capacity - ev.available_tickets
    IN  IF new_available < 0
        THEN IF tickets_sold > new_capacity THEN NoWrite ELSE 0
        ELSE new_available

\* POST /events (admin): EventService.create.
create_event(e, cap, published) ==
    /\ e = next_event_id
    /\ events' = Put(events, e, NewEvent(cap, published))
    /\ next_event_id' = e + 1
    /\ Reply("create_event", "event_created")
    /\ UNCHANGED <<orders, next_order_id>>

\* POST /events/{id}/publish (admin).
publish_event(e) ==
    /\ EventFound(e)
    /\ IF events[e].is_published
       THEN /\ Reply("publish_event", "already_published")
            /\ UNCHANGED events
       ELSE /\ events' = [events EXCEPT ![e].is_published = TRUE]
            /\ Reply("publish_event", "ok")
    /\ UNCHANGED <<orders, next_order_id, next_event_id>>

\* POST /events/{id}/cancel (admin).
cancel_event(e) ==
    /\ EventFound(e)
    /\ IF events[e].is_canceled
       THEN /\ Reply("cancel_event", "already_canceled")
            /\ UNCHANGED events
       ELSE /\ events' = [events EXCEPT ![e].is_canceled = TRUE]
            /\ Reply("cancel_event", "ok")
    /\ UNCHANGED <<orders, next_order_id, next_event_id>>

\* PUT /events/{id} (admin) with is_published or is_canceled in the update:
\* the assignment reads nothing of the row.
update_event_flag(e, field, value) ==
    /\ EventFound(e)
    /\ events' = IF field = "is_published"
                 THEN [events EXCEPT ![e].is_published = value]
                 ELSE [events EXCEPT ![e].is_canceled = value]
    /\ Reply("update_event", "ok")
    /\ UNCHANGED <<orders, next_order_id, next_event_id>>

\* PUT /events/{id} (admin) with total_capacity in the update, first step:
\* the handler loads the event and EventService.update computes from the
\* loaded row.
update_event_read(r, e, new_capacity) ==
    /\ req[r].pc = "idle"
    /\ IF ~EventFound(e)
       THEN /\ Finish(r, "update_event", "not_found")
       ELSE LET v == ResizeValue(events[e], new_capacity) IN
            IF v = NoWrite
            THEN Finish(r, "update_event", "capacity_violation")
            ELSE IF new_capacity = events[e].total_capacity
            THEN Finish(r, "update_event", "ok")
            ELSE Goto(r, [Idle EXCEPT !.pc = "update_event_commit", !.event_id = e,
                                      !.new_total = new_capacity, !.new_available = v])
    /\ UNCHANGED <<events, orders, next_order_id, next_event_id>>

\* ... second step: the commit writes the two assigned attributes.
update_event_commit(r) ==
    /\ req[r].pc = "update_event_commit"
    /\ LET e == req[r].event_id IN
       IF EventFound(e)
       THEN /\ events' = [events EXCEPT ![e].total_capacity = req[r].new_total,
                                        ![e].available_tickets = req[r].new_available]
            /\ Finish(r, "update_event", "ok")
       ELSE /\ UNCHANGED events
            /\ Finish(r, "update_event", "server_error")
    /\ UNCHANGED <<orders, next_order_id, next_event_id>>

\* EventService.has_orders: some order row references the event.
has_orders(e) == \E o \in DOMAIN orders : orders[o].event_id = e

\* DELETE /events/{id} (admin), first step: the handler loads the event and
\* asks has_orders.
delete_event_check(r, e) ==
    /\ req[r].pc = "idle"
    /\ IF ~EventFound(e) THEN Finish(r, "delete_event", "not_found")
       ELSE IF has_orders(e) THEN Finish(r, "delete_event", "has_orders")
       ELSE Goto(r, [Idle EXCEPT !.pc = "delete_event_commit", !.event_id = e])
    /\ UNCHANGED <<events, orders, next_order_id, next_event_id>>

\* ... second step, EventService.delete: the event is loaded again and
\* deleted; the delete cascades to the orders of the event (Event.orders,
\* cascade="all, delete-orphan").
delete_event_commit(r) ==
    /\ req[r].pc = "delete_event_commit"
    /\ LET e == req[r].event_id IN
       /\ events' = IF EventFound(e) THEN Remove(events, e) ELSE events
       /\ orders' = IF EventFound(e)
                    THEN [o \in {x \in DOMAIN orders : orders[x].event_id # e} |-> orders[o]]
                    ELSE orders
    /\ Finish(r, "delete_event", "deleted")
    /\ UNCHANGED <<next_order_id, next_event_id>>

\* --------------------------------------------------------- OrderService
\* OrderService.create, the row inserted.
NewOrder(e, quantity) ==
    [event_id |-> e, quantity |-> quantity, status |-> PENDING,
     payment_id |-> NoneId, paid_at |-> NoTime]

\* OrderService.update_status, the row after the assignments.
update_status_Restamps(order, status, payment_id) ==
    [order EXCEPT !.status = status,
                  !.payment_id = IF payment_id # NoneId THEN payment_id ELSE @,
                  !.paid_at = @ + 1]
update_status(order, status, payment_id) ==
    [order EXCEPT !.status = status,
                  !.payment_id = IF payment_id # NoneId THEN payment_id ELSE @,
                  !.paid_at = IF status = PAID THEN @ + 1 ELSE @]

\* f"{payment_id}:refund:{refund_id}" (None formats as "None").
RefundRef(payment_id, refund_id) ==
    (IF payment_id = NoneId THEN <<NoneToken>> ELSE payment_id) \o <<refund_id>>

\* cancel_order (API): the refund id chosen from the loaded status.
RefundIdFor(order) == IF order.status = PAID THEN PlaceholderRefund ELSE NoneToken

\* OrderService.cancel_order, the payment_id assigned (NoneId: not assigned).
CancelPaymentId(order, refund_id) ==
    IF refund_id # NoneToken THEN RefundRef(order.payment_id, refund_id) ELSE NoneId

\* f"pay_{uuid4}": an identifier that differs from the one the order holds.
FreshPayId(order) ==
    IF order.payment_id # NoneId /\ order.payment_id[1] = PayToken(1) THEN 2 ELSE 1

\* the ownership test of the order handlers
Forbidden_Nobody(who) == FALSE
Forbidden(who) == who = "other"

\* the state tests of process_payment and cancel_order
AlreadyPaid_Unchecked(order) == FALSE
AlreadyPaid(order) == order.status = PAID
AlreadyCanceled_Unchecked(order) == FALSE
AlreadyCanceled(order) == order.status = CANCELED


\* ---- POST /orders ------------------------------------------------------
\* create_order: the handler loads the event and checks it.
create_order_check(r, e, quantity) ==
    /\ req[r].pc = "idle"
    /\ IF ~EventFound(e) THEN Finish(r, "create_order", "not_found")
       ELSE IF ~events[e].is_published THEN Finish(r, "create_order", "unpublished")
       ELSE IF events[e].is_canceled THEN Finish(r, "create_order", "event_canceled")
       ELSE IF events[e].available_tickets < quantity THEN Finish(r, "create_order", "not_enough")
       ELSE Goto(r, [Idle EXCEPT !.pc = "create_order_insert", !.event_id = e,
                                 !.quantity = quantity])
    /\ UNCHANGED <<events, orders, next_order_id, next_event_id>>

\* OrderService.create: the order is inserted and committed.
create_order_insert(r) ==
    /\ req[r].pc = "create_order_insert"
    /\ LET e == req[r].event_id
           q == req[r].quantity
           id == next_order_id
       IN  /\ next_order_id' = id + 1
           /\ IF ~EventFound(e)
              THEN \* the insert violates the foreign key orders.event_id
                   /\ UNCHANGED orders
                   /\ Finish(r, "create_order", "server_error")
              ELSE /\ orders' = Put(orders, id, NewOrder(e, q))
                   /\ Goto(r, [req[r] EXCEPT !.pc = "create_order_load", !.order_id = id])
    /\ UNCHANGED <<events, next_event_id>>

\* decrease_available_tickets loads the event, checks it and computes the
\* new value.
create_order_load(r) ==
    /\ req[r].pc = "create_order_load"
    /\ LET e == req[r].event_id
           q == req[r].quantity
       IN  IF DecreaseAllowed(events, e, q)
           THEN Goto(r, [req[r] EXCEPT !.pc = "create_order_reserve",
                                       !.new_available = DecreaseValue(events[e], q)])
           ELSE Goto(r, [Idle EXCEPT !.pc = "create_order_rollback",
                                     !.order_id = req[r].order_id])
    /\ UNCHANGED <<events, orders, next_order_id, next_event_id>>

\* decrease_available_tickets commits the value it computed.
create_order_reserve(r) ==
    /\ req[r].pc = "create_order_reserve"
    /\ LET e == req[r].event_id IN
       IF EventFound(e)
       THEN /\ events' = [events EXCEPT ![e].available_tickets = req[r].new_available]
            /\ Finish(r, "create_order", "created")
       ELSE /\ UNCHANGED events
            /\ Finish(r, "create_order", "server_error")
    /\ UNCHANGED <<orders, next_order_id, next_event_id>>

\* the reservation failed: OrderService.create deletes the order it inserted.
create_order_rollback(r) ==
    /\ req[r].pc = "create_order_rollback"
    /\ orders' = Remove(orders, req[r].order_id)
    /\ Finish(r, "create_order", "inventory_error")
    /\ UNCHANGED <<events, next_order_id, next_event_id>>

\* ---- POST /orders/{id}/process-payment ----------------------------------
process_payment_check(r, o, who) ==
    /\ req[r].pc = "idle"
    /\ IF ~OrderFound(o) THEN Finish(r, "process_payment", "not_found")
       ELSE IF Forbidden(who) THEN Finish(r, "process_payment", "forbidden")
       ELSE IF AlreadyPaid(orders[o])
       THEN FinishWith(r, "process_payment", "already_paid", orders[o].payment_id)
       ELSE IF AlreadyCanceled(orders[o]) THEN Finish(r, "process_payment", "order_canceled")
       ELSE Goto(r, [Idle EXCEPT !.pc = "process_payment_apply", !.order_id = o])
    /\ UNCHANGED <<events, orders, next_order_id, next_event_id>>

\* PaymentService.process_payment: invalid payment details and a decline by
\* the gateway both return success False (the decline with the payment id the
\* service generated); otherwise success True with a new payment id.
process_payment_DeclineIgnored(order, valid, approved) ==
    [success |-> valid, payment_id |-> <<PayToken(FreshPayId(order))>>]
process_payment(order, valid, approved) ==
    IF ~valid THEN [success |-> FALSE, payment_id |-> NoneId]
    ELSE [success |-> approved, payment_id |-> <<PayToken(FreshPayId(order))>>]

\* the handler calls PaymentService.process_payment; on success update_status
\* commits, on failure the handler returns the failure as its result.
process_payment_apply(r, valid, approved) ==
    /\ req[r].pc = "process_payment_apply"
    /\ LET o == req[r].order_id IN
       IF ~OrderFound(o)
       THEN /\ UNCHANGED orders
            /\ Finish(r, "process_payment",
                      IF valid /\ approved THEN "server_error" ELSE "payment_failed")
       ELSE LET payment_result == process_payment(orders[o], valid, approved) IN
            IF ~payment_result.success
            THEN /\ UNCHANGED orders
                 /\ Finish(r, "process_payment", "payment_failed")
            ELSE /\ orders' = [orders EXCEPT
                                 ![o] = update_status(@, PAID, payment_result.payment_id)]
                 /\ FinishWith(r, "process_payment", "paid", payment_result.payment_id)
    /\ UNCHANGED <<events, next_order_id, next_event_id>>

\* ---- POST /orders/{id}/cancel -------------------------------------------
cancel_order_check(r, o, who) ==
    /\ req[r].pc = "idle"
    /\ IF ~OrderFound(o) THEN Finish(r, "cancel_order", "not_found")
       ELSE IF Forbidden(who) THEN Finish(r, "cancel_order", "forbidden")
       ELSE IF AlreadyCanceled(orders[o]) THEN Finish(r, "cancel_order", "already_canceled")
       ELSE Goto(r, [Idle EXCEPT !.pc = "cancel_order_commit", !.order_id = o,
                        !.new_payment_id = CancelPaymentId(orders[o], RefundIdFor(orders[o]))])
    /\ UNCHANGED <<events, orders, next_order_id, next_event_id>>

\* OrderService.cancel_order commits the status (and the refund reference).
cancel_order_commit(r) ==
    /\ req[r].pc = "cancel_order_commit"
    /\ LET o == req[r].order_id IN
       IF ~OrderFound(o)
       THEN /\ UNCHANGED orders
            /\ Finish(r, "cancel_order", "server_error")
       ELSE /\ orders' = [orders EXCEPT ![o].status = CANCELED,
                            ![o].payment_id = IF req[r].new_payment_id # NoneId
                                              THEN req[r].new_payment_id ELSE @]
            /\ Goto(r, [Idle EXCEPT !.pc = "cancel_order_load", !.order_id = o,
                                    !.event_id = orders[o].event_id,
                                    !.quantity = orders[o].quantity])
    /\ UNCHANGED <<events, next_order_id, next_event_id>>

\* The handler returns get_order_with_event_details, which is None when the
\* order no longer exists: the response then fails and no background task
\* runs.
CancelReturn(o) == IF OrderFound(o) THEN "canceled" ELSE "server_error"

\* increase_available_tickets loads the event and computes the new value; the
\* handler ignores what it returns.  A value equal to the loaded one is not
\* written.  Without the event the handler has no order details to return.
cancel_order_load(r) ==
    /\ req[r].pc = "cancel_order_load"
    /\ LET e == req[r].event_id
           q == req[r].quantity
       IN  IF ~EventFound(e) THEN Finish(r, "cancel_order", "server_error")
           ELSE IF IncreaseValue(events[e], q) = events[e].available_tickets
           THEN Finish(r, "cancel_order", CancelReturn(req[r].order_id))
           ELSE Goto(r, [req[r] EXCEPT !.pc = "cancel_order_release",
                                       !.new_available = IncreaseValue(events[e], q)])
    /\ UNCHANGED <<events, orders, next_order_id, next_event_id>>

\* increase_available_tickets commits the value it computed.
cancel_order_release(r) ==
    /\ req[r].pc = "cancel_order_release"
    /\ LET e == req[r].event_id IN
       IF EventFound(e)
       THEN /\ events' = [events EXCEPT ![e].available_tickets = req[r].new_available]
            /\ Finish(r, "cancel_order", CancelReturn(req[r].order_id))
       ELSE /\ UNCHANGED events
            /\ Finish(r, "cancel_order", "server_error")
    /\ UNCHANGED <<orders, next_order_id, next_event_id>>

\* ---- PUT /orders/{id} (admin) -------------------------------------------
update_order(o, status, payment_id) ==
    /\ IF ~OrderFound(o)
       THEN /\ UNCHANGED orders
            /\ Reply("update_order", "not_found")
       ELSE IF status = Unset
       THEN /\ UNCHANGED orders
            /\ Reply("update_order", "ok")
       ELSE /\ orders' = [orders EXCEPT ![o] = update_status(@, status, payment_id)]
            /\ Reply("update_order", "ok")
    /\ UNCHANGED <<events, next_order_id, next_event_id>>

\* The dependency get_current_admin_user of PUT /orders/{id}: a principal who
\* is not an admin gets 403 before the handler runs.
get_current_admin_user(who) == who = "admin"

update_order_by(who, o, status, payment_id) ==
    IF get_current_admin_user(who)
    THEN update_order(o, status, payment_id)
    ELSE /\ Reply("update_order", "forbidden")
         /\ UNCHANGED <<events, orders, next_order_id, next_event_id>>

\* ---- PaymentTasks.process_refund_async ----------------------------------
\* PaymentService.process_refund: fails on a payment id that does not start
\* with "pay_", and otherwise fails or succeeds as the gateway decides.
process_refund(payment_id, gateway_ok) ==
    IF payment_id = NoneId \/ payment_id[1][1] # "pay_"
    THEN [success |-> FALSE, refund_id |-> NoneToken]
    ELSE [success |-> gateway_ok, refund_id |-> GeneratedRefund]

process_refund_async(o, payment_id, gateway_ok, db_session) ==
    /\ LET refund_result == process_refund(payment_id, gateway_ok) IN
       IF db_session /\ refund_result.success
       THEN IF OrderFound(o)
            THEN /\ orders' = [orders EXCEPT ![o] =
                        update_status(@, REFUNDED, RefundRef(payment_id, refund_result.refund_id))]
                 /\ Reply("process_refund_async", "refunded")
            ELSE /\ UNCHANGED orders
                 /\ Reply("process_refund_async", "error")
       ELSE /\ UNCHANGED orders
            /\ Reply("process_refund_async", "refund_failed")
    /\ UNCHANGED <<events, next_order_id, next_event_id>>

\* ---- background notification of the order handlers ----------------------
\* create_order, process_payment and cancel_order add the notification to the
\* background tasks on their successful path only: the responses after which
\* a task is queued.
QueuesNotification_Always(code) == code # "none"
QueuesNotification(code) == code \in {"created", "paid", "canceled"}

\* what a delivery can do: NotificationService.send_email returns True or
\* False, or the mail service it stands for raises
NotificationOutcomes == {"true", "false", "raise"}

\* The background task runs once the response has been sent.  It is
\* NotificationService.send_order_confirmation / send_order_cancellation called
\* directly, a single attempt; the service holds no database session, and what
\* the task returns or raises is dropped by the server.
send_notification(outcome) ==
    /\ QueuesNotification(resp.code)
    /\ outcome \in NotificationOutcomes
    /\ req' = req
    /\ resp' = Resp("send_notification",
                    IF outcome = "true" THEN "notified" ELSE "notification_failed")
    /\ trip' = TripNext
    /\ UNCHANGED <<events, orders, next_order_id, next_event_id, task>>

\* ---- the retry decorator -------------------------------------------------
InitialDelay == 2  \* delay=2.0
Backoff == 2       \* backoff=2.0

\* What the wrapper does with the outcome of the invocation it has just made:
\* a returned value is returned; an exception of the configured classes
\* ("raise") is logged and, while mtries > 1, followed by a sleep of mdelay and
\* another invocation with mdelay multiplied by backoff (sleeps lists the
\* durations slept, slept is their sum); the exception of the last
\* invocation, and an exception of any other class ("other"), propagates.  result is the outcome together
\* with the number of the invocation that produced it.
retry_OneMore(t, last) ==
    IF last \notin {"raise", "other"}
    THEN [t EXCEPT !.pc = "returned", !.result = <<last, t.calls>>]
    ELSE IF last = "raise" /\ t.mtries > 0
    THEN [t EXCEPT !.pc = "call", !.mtries = @ - 1, !.sleeps = Append(@, t.mdelay),
                   !.slept = @ + t.mdelay, !.mdelay = @ * t.backoff]
    ELSE [t EXCEPT !.pc = "raised", !.result = <<last, t.calls>>]
retry_FixedDelay(t, last) ==
    IF last \notin {"raise", "other"}
    THEN [t EXCEPT !.pc = "returned", !.result = <<last, t.calls>>]
    ELSE IF last = "raise" /\ t.mtries > 1
    THEN [t EXCEPT !.pc = "call", !.mtries = @ - 1, !.sleeps = Append(@, t.mdelay),
                   !.slept = @ + t.mdelay]
    ELSE [t EXCEPT !.pc = "raised", !.result = <<last, t.calls>>]
retry(t, last) ==
    IF last \notin {"raise", "other"}
    THEN [t EXCEPT !.pc = "returned", !.result = <<last, t.calls>>]
    ELSE IF last = "raise" /\ t.mtries > 1
    THEN [t EXCEPT !.pc = "call", !.mtries = @ - 1, !.sleeps = Append(@, t.mdelay),
                   !.slept = @ + t.mdelay, !.mdelay = @ * t.backoff]
    ELSE [t EXCEPT !.pc = "raised", !.result = <<last, t.calls>>]

\* the outcome of the invocation the wrapper is about to make
ThisOutcome == task.script[task.calls + 1]

\* ---- EmailTasks.send_order_confirmation_email / _cancellation_email ------
EmailKinds == {"send_order_confirmation_email", "send_order_cancellation_email"}

\* the task body: it returns what NotificationService returned, after logging
\* it; an exception of the service passes through the body
send_order_email(outcome) == outcome

email_task_call ==
    /\ task.pc = "call"
    /\ task.kind \in EmailKinds
    /\ task' = retry([task EXCEPT !.calls = @ + 1], send_order_email(ThisOutcome))
    /\ UNCHANGED <<events, orders, next_order_id, next_event_id, req, resp, trip>>

\* ---- PaymentService, as the tasks call it --------------------------------
\* PaymentService._validate_payment_details: an unsupported method is invalid
validate_payment_details(payment_method, details_ok) ==
    payment_method \in {"credit_card", "paypal"} /\ details_ok

\* payment_service.py defines class PaymentService a second time; its
\* process_payment validates credit card details only and never declines.
process_payment_second(order, payment_method, details_ok) ==
    IF payment_method = "credit_card" /\ ~details_ok
    THEN [success |-> FALSE, payment_id |-> NoneId]
    ELSE [success |-> TRUE, payment_id |-> <<PaymentToken(FreshPayId(order))>>]

\* try / except Exception of the task bodies: an exception raised inside the
\* body becomes a returned failure; anything else passes
caught_Reraised(exc) == exc
caught(exc) == IF exc = "raise" THEN "result" ELSE exc

\* the order a task names, or a new row when there is none (the gateway is
\* given the amount only)
OrderOrNew(o) == IF OrderFound(o) THEN orders[o] ELSE NewOrder(0, 1)

\* ---- PaymentTasks.process_payment_async under the retry decorator --------
\* The invocation up to the return of PaymentService.process_payment.  The
\* first definition of the service catches its own exceptions, the second one
\* lets them reach the task body.
payment_task_call_Applies ==
    /\ task.pc = "call"
    /\ task.kind = "process_payment_async"
    /\ task' = [task EXCEPT !.calls = @ + 1, !.gateway_calls = @ + 1, !.pc = "apply",
                            !.gateway_result = [success |-> TRUE,
                                                payment_id |-> <<PayToken(1)>>]]
    /\ orders' = [o \in DOMAIN orders |-> [orders[o] EXCEPT !.status = PAID]]
    /\ UNCHANGED <<events, next_order_id, next_event_id, req, resp, trip>>
payment_task_call ==
    /\ task.pc = "call"
    /\ task.kind = "process_payment_async"
    /\ LET t == [task EXCEPT !.calls = @ + 1]
           g == [t EXCEPT !.gateway_calls = @ + 1]
           order == OrderOrNew(task.order_id)
           valid == validate_payment_details(task.payment_method, task.details_ok)
       IN  IF ~task.amount_ok
           THEN \* the log line formats amount with :.2f before the try
                task' = retry(t, "raise")
           ELSE IF ThisOutcome = "other"
                   \/ (ThisOutcome = "raise" /\ task.definition = "second")
           THEN task' = retry(g, caught(ThisOutcome))
           ELSE task' = [g EXCEPT !.pc = "apply", !.gateway_result =
                            IF task.definition = "second"
                            THEN process_payment_second(order, task.payment_method,
                                                        task.details_ok)
                            ELSE IF ThisOutcome = "raise" THEN NoResult
                            ELSE process_payment(order, valid, ThisOutcome = "ok")]
    /\ UNCHANGED <<events, orders, next_order_id, next_event_id, req, resp, trip>>

\* ... the rest of the body: on success OrderService.update_status, which
\* raises when the order does not exist; the body returns the gateway result.
payment_task_apply ==
    /\ task.pc = "apply"
    /\ task.kind = "process_payment_async"
    /\ LET o == task.order_id
           payment_result == task.gateway_result
       IN  IF payment_result.success /\ OrderFound(o)
           THEN /\ orders' = [orders EXCEPT
                                ![o] = update_status(@, PAID, payment_result.payment_id)]
                /\ task' = retry([task EXCEPT !.status_updates = @ + 1], "result")
           ELSE /\ UNCHANGED orders
                /\ task' = retry(task, IF payment_result.success
                                       THEN caught("raise") ELSE "result")
    /\ UNCHANGED <<events, next_order_id, next_event_id, req, resp, trip>>

\* ---- PaymentTasks.process_refund_async under the retry decorator ---------
\* The invocation up to the return of PaymentService.process_refund.  The
\* second definition of the service takes no reason argument: the call with
\* reason=... raises TypeError inside the body.
refund_task_call ==
    /\ task.pc = "call"
    /\ task.kind = "process_refund_async"
    /\ LET g == [task EXCEPT !.calls = @ + 1, !.gateway_calls = @ + 1] IN
       IF ThisOutcome = "other" \/ task.definition = "second"
       THEN task' = retry(g, caught(IF ThisOutcome = "other" THEN "other" ELSE "raise"))
       ELSE task' = [g EXCEPT !.pc = "apply", !.gateway_result =
                        IF ThisOutcome = "raise" THEN NoResult
                        ELSE [success |-> process_refund(task.payment_id,
                                                         ThisOutcome = "ok").success,
                              payment_id |-> NoneId]]
    /\ UNCHANGED <<events, orders, next_order_id, next_event_id, req, resp, trip>>

\* ... the rest of the body: on success update_status to REFUNDED with the
\* refund reference.
refund_task_apply ==
    /\ task.pc = "apply"
    /\ task.kind = "process_refund_async"
    /\ LET o == task.order_id
           refund_result == task.gateway_result
       IN  IF refund_result.success /\ OrderFound(o)
           THEN /\ orders' = [orders EXCEPT ![o] =
                        update_status(@, REFUNDED, RefundRef(task.payment_id, GeneratedRefund))]
                /\ task' = retry([task EXCEPT !.status_updates = @ + 1], "result")
           ELSE /\ UNCHANGED orders
                /\ task' = retry(task, IF refund_result.success
                                       THEN caught("raise") ELSE "result")
    /\ UNCHANGED <<events, next_order_id, next_event_id, req, resp, trip>>

\* ------------------------------------------------------------ the system
Quantities == 1 .. MaxCap
Principals == {"owner", "other", "admin"}
AdminPaymentIds == {NoneId}
\* process_payment inputs: payment details valid, gateway approves
PaymentInputs == {<<TRUE, TRUE>>, <<TRUE, FALSE>>, <<FALSE, TRUE>>}
\* process_refund_async inputs: payment id, gateway outcome, db_session given
RefundCalls == {<<<<PayToken(1)>>, TRUE, TRUE>>, <<<<PayToken(1)>>, FALSE, TRUE>>,
                <<<<PayToken(1)>>, TRUE, FALSE>>, <<<<AdminToken>>, TRUE, TRUE>>}

\* Guards that keep the model finite: the ids the orders table hands out, the
\* timestamps an order receives and the length of a payment_id.
InsertsPending == Cardinality({s \in Slots : req[s].pc = "create_order_insert"})
OrdersLeft(limit) == next_order_id + InsertsPending <= limit
StampsLeft(o) == o \in DOMAIN orders => orders[o].paid_at < MaxStamps
RefundFits(o) ==
    o \in DOMAIN orders /\ orders[o].status = PAID => Len(orders[o].payment_id) < MaxPidLen

\* events are created and resized
EventCapacity ==
    \/ \E e \in EventIds, cap \in Quantities, p \in BOOLEAN : create_event(e, cap, p)
    \/ \E r \in Slots, e \in EventIds, n \in Quantities : update_event_read(r, e, n)
    \/ \E r \in Slots : update_event_commit(r)

\* events are published, unpublished and canceled
EventFlags ==
    \/ \E e \in EventIds : publish_event(e)
    \/ \E e \in EventIds : cancel_event(e)
    \/ \E e \in EventIds, f \in {"is_published", "is_canceled"} : update_event_flag(e, f, FALSE)

EventAdmin == EventCapacity \/ EventFlags

DeleteEvent ==
    \/ \E r \in Slots, e \in EventIds : delete_event_check(r, e)
    \/ \E r \in Slots : delete_event_commit(r)

CreateOrder(limit) ==
    \/ \E r \in Slots, e \in EventIds, q \in Quantities :
           OrdersLeft(limit) /\ create_order_check(r, e, q)
    \/ \E r \in Slots : create_order_insert(r)
    \/ \E r \in Slots : create_order_load(r)
    \/ \E r \in Slots : create_order_reserve(r)
    \/ \E r \in Slots : create_order_rollback(r)

CancelOrder(limit) ==
    \/ \E r \in Slots, o \in 1 .. limit, w \in Principals :
           RefundFits(o) /\ cancel_order_check(r, o, w)
    \/ \E r \in Slots : cancel_order_commit(r)
    \/ \E r \in Slots : cancel_order_load(r)
    \/ \E r \in Slots : cancel_order_release(r)

PayOrder(limit) ==
    \/ \E r \in Slots, o \in 1 .. limit, w \in Principals : process_payment_check(r, o, w)
    \/ \E r \in Slots, p \in PaymentInputs :
           (p[1] /\ p[2] => StampsLeft(req[r].order_id)) /\ process_payment_apply(r, p[1], p[2])

AdminAndTasks ==
    \/ \E o \in 1 .. MaxOrders, st \in OrderStatus \cup {Unset}, p \in AdminPaymentIds :
           (st = PAID => StampsLeft(o)) /\ update_order(o, st, p)
    \/ \E o \in 1 .. MaxOrders, c \in RefundCalls : process_refund_async(o, c[1], c[2], c[3])

\* The order handlers, the admin's status update and the refund task, with one
\* order, on events that are created and resized (the handlers of the event
\* flags run with the inventory in SpecInventory).
Next ==
    EventCapacity \/ CreateOrder(MaxOrders) \/ CancelOrder(MaxOrders) \/ PayOrder(MaxOrders)
        \/ AdminAndTasks

Spec == Init /\ [][Next]_vars

\* The inventory and event handlers, with several orders.
NextInventory == EventAdmin \/ DeleteEvent \/ CreateOrder(MaxStock) \/ CancelOrder(MaxStock)

SpecInventory == Init /\ [][NextInventory]_vars

\* The order handlers of the users (create, pay, cancel) on events that are
\* created and resized, with several orders.
NextLifecycle ==
    EventCapacity \/ CreateOrder(MaxStock) \/ CancelOrder(MaxStock) \/ PayOrder(MaxStock)

SpecLifecycle == Init /\ [][NextLifecycle]_vars

\* The order handlers and the direct status update, called by the owner of
\* the order, by another user and by an admin.
UpdateOrderBy ==
    \E who \in Principals, o \in 1 .. MaxOrders, st \in OrderStatus \cup {Unset},
       p \in AdminPaymentIds :
        (st = PAID => StampsLeft(o)) /\ update_order_by(who, o, st, p)

NextAccess ==
    EventCapacity \/ CreateOrder(MaxOrders) \/ CancelOrder(MaxOrders) \/ PayOrder(MaxOrders)
        \/ UpdateOrderBy

SpecAccess == Init /\ [][NextAccess]_vars

\* The order handlers of the users with the notification they queue.
Notify == \E outcome \in NotificationOutcomes : send_notification(outcome)

NextNotify ==
    EventCapacity \/ CreateOrder(MaxOrders) \/ CancelOrder(MaxOrders) \/ PayOrder(MaxOrders)
        \/ Notify

SpecNotify == Init /\ [][NextNotify]_vars

\* One call of a retry-wrapped task, on a database with one event and one
\* order.  The call's arguments, the decorator's max_attempts, the definition
\* of PaymentService in force and what each invocation meets are inputs.
Outcomes == {"ok", "fail", "raise", "other"}
Scripts == [1 .. MaxAttempts + 1 -> Outcomes]
EmailScripts == [1 .. MaxAttempts + 1 -> {"true", "false", "raise", "other"}]
StartTask(kind, n, script) ==
    [NoTask EXCEPT !.kind = kind, !.pc = "call", !.max_attempts = n, !.mtries = n,
                   !.delay = InitialDelay, !.backoff = Backoff,
                   !.mdelay = InitialDelay, !.script = script]
\* the email tasks under the decorator with any max_attempts, delay, backoff
EmailTaskInputs ==
    {[StartTask(k, n, sc) EXCEPT !.delay = d, !.mdelay = d, !.backoff = b] :
        k \in EmailKinds, n \in 1 .. MaxAttempts, sc \in EmailScripts,
        d \in 1 .. MaxDelay, b \in 1 .. MaxBackoff}
PaymentTaskInputs ==
    {[StartTask("process_payment_async", MaxAttempts, sc) EXCEPT
        !.order_id = o, !.definition = d, !.payment_method = m, !.details_ok = ok,
        !.amount_ok = a] :
        sc \in Scripts, o \in {1, 2}, d \in {"first", "second"},
        m \in {"credit_card", "paypal", "bitcoin"}, ok \in BOOLEAN, a \in BOOLEAN}
RefundTaskInputs ==
    {[StartTask("process_refund_async", MaxAttempts, sc) EXCEPT
        !.order_id = o, !.definition = d, !.payment_id = p] :
        sc \in Scripts, o \in {1, 2}, d \in {"first", "second"},
        p \in {<<PayToken(1)>>, <<AdminToken>>}}

InitTasks ==
    /\ events = Put(<< >>, 1, [NewEvent(1, TRUE) EXCEPT !.available_tickets = 0])
    /\ orders \in {Put(<< >>, 1, NewOrder(1, 1)),
                   Put(<< >>, 1, update_status(NewOrder(1, 1), PAID, <<PayToken(1)>>))}
    /\ next_order_id = 2
    /\ next_event_id = 2
    /\ req = [r \in Slots |-> Idle]
    /\ resp = NoResp
    /\ trip = NoTrip
    /\ task \in EmailTaskInputs \cup PaymentTaskInputs \cup RefundTaskInputs

NextTasks ==
    \/ email_task_call
    \/ payment_task_call
    \/ payment_task_apply
    \/ refund_task_call
    \/ refund_task_apply

SpecTasks == InitTasks /\ [][NextTasks]_vars

\* ================================================================ properties
RECURSIVE SumQty(_, _)
SumQty(ids, e) ==
    IF ids = {} THEN 0
    ELSE LET o == CHOOSE x \in ids : TRUE
         IN  (IF orders[o].event_id = e /\ orders[o].status \in {PENDING, PAID}
              THEN orders[o].quantity ELSE 0) + SumQty(ids \ {o}, e)
\* the tickets held by the event's PENDING and PAID orders
ActiveQty(e) == SumQty(DOMAIN orders, e)

\* C1: for every event, in every reachable state, 0 <= available_tickets <=
\* total_capacity.
C1_AvailableWithinCapacity ==
    \A e \in DOMAIN events :
        /\ 0 <= events[e].available_tickets
        /\ events[e].available_tickets <= events[e].total_capacity

\* C2: whenever no request is in flight, available_tickets plus the quantity
\* of the event's PENDING and PAID orders equals total_capacity.
C2_Conservation ==
    AllIdle => \A e \in DOMAIN events :
                   events[e].available_tickets + ActiveQty(e) = events[e].total_capacity

\* C3: two order creations that run concurrently on one event and together
\* ask for more than available_tickets never both succeed.  A creation at
\* create_order_reserve has passed the check of decrease_available_tickets,
\* which has no failure after it: the creation succeeds.
C3_ConcurrentCreationsExclusive ==
    \A r1, r2 \in Slots :
        (/\ r1 # r2
         /\ req[r1].pc = "create_order_reserve"
         /\ req[r2].pc = "create_order_reserve"
         /\ req[r1].event_id = req[r2].event_id
         /\ req[r1].event_id \in DOMAIN events)
        => req[r1].quantity + req[r2].quantity <= events[req[r1].event_id].available_tickets

\* C4: order creation is one atomic unit: no state, intermediate ones
\* included, holds the order record of a creation whose quantity has not been
\* taken from available_tickets.
C4_CreationAtomic ==
    \A r \in Slots :
        req[r].pc \in {"create_order_load", "create_order_reserve", "create_order_rollback"}
        => req[r].order_id \notin DOMAIN orders

\* C5: CANCELED and REFUNDED are terminal: no step changes an order that is
\* CANCELED or REFUNDED.
C5_TerminalStatuses ==
    [][\A o \in DOMAIN orders :
          orders[o].status \in {CANCELED, REFUNDED}
          => o \in DOMAIN orders' /\ orders'[o] = orders[o]]_vars

\* C6: an order starts PENDING, and its status only ever changes along
\* PENDING -> PAID, PENDING -> CANCELED, PAID -> CANCELED, PAID -> REFUNDED.
C6_StateMachine ==
    [][\A o \in DOMAIN orders' :
          IF o \in DOMAIN orders
          THEN orders'[o].status # orders[o].status
               => <<orders[o].status, orders'[o].status>> \in
                      {<<PENDING, PAID>>, <<PENDING, CANCELED>>,
                       <<PAID, CANCELED>>, <<PAID, REFUNDED>>}
          ELSE orders'[o].status = PENDING]_vars

\* C7: a cancel request for an order that is already CANCELED is answered
\* with the conflict error and changes neither the order (status, payment_id)
\* nor the event's available_tickets: the quantity is not released again.
C7_SecondCancelRejected ==
    [][\A r \in Slots, o \in DOMAIN orders, w \in Principals \ {"other"} :
          (orders[o].status = CANCELED /\ cancel_order_check(r, o, w))
          => /\ resp'.code = "already_canceled"
             /\ req'[r] = Idle
             /\ orders' = orders
             /\ events' = events]_vars
C7_Witness ==
    /\ resp.code = "already_canceled"
    /\ \E o \in DOMAIN orders : orders[o].status = CANCELED

\* C8: round trip: a creation for q lowers available_tickets by exactly q,
\* and canceling that order with nothing in between returns available_tickets
\* to its value before the creation.
C8_RoundTrip ==
    /\ trip.phase = "created" /\ ~trip.paid
       => events[orders[trip.order_id].event_id].available_tickets
              = trip.before - orders[trip.order_id].quantity
    /\ trip.phase = "returned" /\ ~trip.paid
       => events[orders[trip.order_id].event_id].available_tickets = trip.before

\* C9: process-payment on an order that is already PAID answers "already
\* paid" with the order's payment_id, goes to no authorization, and changes
\* neither the order (status, paid_at, payment_id) nor the event.
C9_AlreadyPaidNoOp ==
    [][\A r \in Slots, o \in DOMAIN orders, w \in Principals \ {"other"} :
          (orders[o].status = PAID /\ process_payment_check(r, o, w))
          => /\ resp'.code = "already_paid"
             /\ resp'.payment_id = orders[o].payment_id
             /\ req'[r] = Idle
             /\ orders' = orders
             /\ events' = events]_vars
C9_Witness ==
    /\ resp.code = "already_paid"
    /\ \E o \in DOMAIN orders :
           /\ orders[o].status = PAID
           /\ orders[o].payment_id # NoneId
           /\ resp.payment_id = orders[o].payment_id

\* C10: every PAID order has a paid_at and a payment_id.
C10_PaidHasPayment ==
    \A o \in DOMAIN orders :
        orders[o].status = PAID
        => orders[o].paid_at # NoTime /\ orders[o].payment_id # NoneId

\* C11: when the payment of an order fails (invalid payment details or a
\* decline by the gateway), the handler returns the failure as its result,
\* and the order (status, payment_id, paid_at) and the event are unchanged: a
\* PENDING order stays PENDING.
C11_FailedPaymentChangesNothing ==
    [][\A r \in Slots, p \in PaymentInputs \ {<<TRUE, TRUE>>} :
          process_payment_apply(r, p[1], p[2])
          => /\ resp'.code = "payment_failed"
             /\ resp'.payment_id = NoneId
             /\ req'[r] = Idle
             /\ orders' = orders
             /\ events' = events]_vars
C11_Witness ==
    /\ resp.code = "payment_failed"
    /\ \E o \in DOMAIN orders :
           orders[o].status = PENDING /\ orders[o].payment_id = NoneId
                                      /\ orders[o].paid_at = NoTime

\* C12: full life cycle of an order whose requests run one after the other:
\* created (PENDING, available_tickets lowered by quantity), paid (PAID,
\* paid_at set), canceled: the order is CANCELED, available_tickets is back at
\* its value before the creation, and payment_id carries the refund reference
\* if and only if the order was PAID when canceled (a PENDING order's
\* payment_id is unchanged).
C12_Lifecycle ==
    trip.phase \in {"created", "returned"} =>
        LET order == orders[trip.order_id]
            available == events[order.event_id].available_tickets
        IN  /\ (trip.phase = "created" /\ ~trip.paid)
               => order.status = PENDING /\ available = trip.before - order.quantity
            /\ (trip.phase = "created" /\ trip.paid)
               => /\ order.status = PAID
                  /\ order.paid_at # NoTime
                  /\ available = trip.before - order.quantity
            /\ trip.phase = "returned"
               => /\ order.status = CANCELED
                  /\ available = trip.before
                  /\ order.payment_id = IF trip.paid
                                        THEN <<PayToken(1), PlaceholderRefund>>
                                        ELSE NoneId

\* C13: an order becomes REFUNDED only from PAID and only by the refund task
\* after the gateway's refund call succeeded.
C13_RefundedOnlyFromPaid ==
    [][\A o \in DOMAIN orders :
          (o \in DOMAIN orders' /\ orders[o].status # REFUNDED
                                /\ orders'[o].status = REFUNDED)
          => /\ orders[o].status = PAID
             /\ \E c \in RefundCalls :
                    /\ process_refund(c[1], c[2]).success
                    /\ process_refund_async(o, c[1], c[2], c[3])]_vars

\* C14: reserve (decrease_available_tickets) returns false and writes nothing
\* if the event it loads does not exist, is canceled or has available_tickets
\* < quantity (OrderService.create then takes its failure path); otherwise it
\* returns true and its commit sets available_tickets to the loaded value
\* minus quantity and changes nothing else of the event.
C14_Reserve ==
    [][\A r \in Slots :
          LET e == req[r].event_id
              q == req[r].quantity
          IN  /\ create_order_load(r)
                 => /\ events' = events
                    /\ IF \/ e \notin DOMAIN events
                          \/ events[e].is_canceled
                          \/ events[e].available_tickets < q
                       THEN req'[r].pc = "create_order_rollback"
                       ELSE /\ req'[r].pc = "create_order_reserve"
                            /\ req'[r].new_available = events[e].available_tickets - q
              /\ create_order_rollback(r) => events' = events
              /\ (create_order_reserve(r) /\ e \in DOMAIN events)
                 => /\ events' = [events EXCEPT ![e].available_tickets = req[r].new_available]
                    /\ resp'.code = "created"]_vars
C14_Witness ==
    /\ resp.code = "inventory_error"
    /\ \E o \in DOMAIN orders :
           /\ orders[o].status = PENDING
           /\ orders[o].event_id \in DOMAIN events
           /\ events[orders[o].event_id].available_tickets
                  = events[orders[o].event_id].total_capacity - orders[o].quantity

\* C15: release (increase_available_tickets) sets available_tickets to
\* min(available_tickets + quantity, total_capacity) for every event that
\* exists, canceled or not, and changes nothing else; it writes nothing only
\* when the event does not exist (or the value is the one already stored).
C15_Release ==
    [][\A r \in Slots :
          LET e == req[r].event_id
              q == req[r].quantity
          IN  /\ cancel_order_load(r)
                 => /\ events' = events
                    /\ IF e \notin DOMAIN events
                       THEN req'[r].pc = "idle" /\ resp'.code # "canceled"
                       ELSE LET sum == events[e].available_tickets + q
                                cap == events[e].total_capacity
                                v == IF sum < cap THEN sum ELSE cap
                            IN  IF v = events[e].available_tickets
                                THEN /\ req'[r].pc = "idle"
                                     /\ (resp'.code = "canceled") <=> OrderFound(req[r].order_id)
                                ELSE /\ req'[r].pc = "cancel_order_release"
                                     /\ req'[r].new_available = v
              /\ (cancel_order_release(r) /\ e \in DOMAIN events)
                 => /\ events' = [events EXCEPT ![e].available_tickets = req[r].new_available]
                    /\ (resp'.code = "canceled") <=> OrderFound(req[r].order_id)]_vars
C15_Witness ==
    /\ resp.code = "canceled"
    /\ \E e \in DOMAIN events :
           /\ events[e].is_canceled
           /\ events[e].available_tickets = events[e].total_capacity
           /\ \E o \in DOMAIN orders : orders[o].event_id = e /\ orders[o].status = CANCELED

\* C16: resize (EventService.update with total_capacity): if the tickets sold
\* (total_capacity - available_tickets) exceed the new capacity the operation
\* fails with the capacity violation and nothing changes; otherwise
\* total_capacity becomes the new value and available_tickets changes by the
\* same difference (it is never clamped to 0), and nothing else changes.
C16_Resize ==
    [][\A r \in Slots :
          /\ \A e \in DOMAIN events, n \in Quantities :
                update_event_read(r, e, n)
                => /\ events' = events
                   /\ IF events[e].total_capacity - events[e].available_tickets > n
                      THEN req'[r].pc = "idle" /\ resp'.code = "capacity_violation"
                      ELSE IF n = events[e].total_capacity
                      THEN req'[r].pc = "idle" /\ resp'.code # "capacity_violation"
                      ELSE /\ req'[r].pc = "update_event_commit"
                           /\ req'[r].new_total = n
                           /\ req'[r].new_available
                                  = events[e].available_tickets + (n - events[e].total_capacity)
                           /\ req'[r].new_available >= 0
          /\ (update_event_commit(r) /\ req[r].event_id \in DOMAIN events)
             => events' = [events EXCEPT
                              ![req[r].event_id].total_capacity = req[r].new_total,
                              ![req[r].event_id].available_tickets = req[r].new_available]]_vars
C16_Witness ==
    /\ resp.code = "capacity_violation"
    /\ \E e \in DOMAIN events : events[e].available_tickets < events[e].total_capacity

\* C17: an order is created only if, at the moment its stock is reserved, the
\* event exists, is published, is not canceled and has available_tickets >=
\* quantity, whatever unpublish, cancel or resize ran in between.
C17_ReservedOnlyWhenOpen ==
    [][\A r \in Slots :
          (create_order_reserve(r) /\ resp'.code = "created")
          => LET e == req[r].event_id IN
             /\ e \in DOMAIN events
             /\ events[e].is_published
             /\ ~events[e].is_canceled
             /\ events[e].available_tickets >= req[r].quantity]_vars

\* C18: when the reservation fails during order creation, the creation ends
\* with the inventory error, the order it had inserted is gone and every
\* other order is as it was, and no step of the creation has changed an event.
C18_FailedReservationUndone ==
    [][\A r \in Slots :
          /\ create_order_rollback(r)
             => /\ resp'.code = "inventory_error"
                /\ req'[r] = Idle
                /\ DOMAIN orders' = DOMAIN orders \ {req[r].order_id}
                /\ \A o \in DOMAIN orders' : orders'[o] = orders[o]
                /\ events' = events
          /\ (create_order_insert(r) \/ create_order_load(r))
             => /\ events' = events
                /\ \A o \in DOMAIN orders : o \in DOMAIN orders' /\ orders'[o] = orders[o]]_vars
C18_Witness ==
    /\ resp.code = "inventory_error"
    /\ orders = << >>
    /\ next_order_id > 1
    /\ \E e \in DOMAIN events : events[e].available_tickets = events[e].total_capacity

\* C19: canceling an event changes no order and neither available_tickets nor
\* total_capacity of the event; a creation request checked while the event is
\* canceled fails, and a reserve that loads the canceled event fails.
C19_CancelEventFreezes ==
    [][/\ \A e \in DOMAIN events :
             cancel_event(e)
             => /\ orders' = orders
                /\ DOMAIN events' = DOMAIN events
                /\ \A x \in DOMAIN events :
                      /\ events'[x].available_tickets = events[x].available_tickets
                      /\ events'[x].total_capacity = events[x].total_capacity
                /\ events'[e].is_canceled
       /\ \A r \in Slots, e \in DOMAIN events, q \in Quantities :
             (events[e].is_canceled /\ create_order_check(r, e, q))
             => /\ req'[r] = Idle
                /\ resp'.code # "created"
                /\ orders' = orders
                /\ events' = events
       /\ \A r \in Slots :
             (/\ create_order_load(r)
              /\ req[r].event_id \in DOMAIN events
              /\ events[req[r].event_id].is_canceled)
             => req'[r].pc = "create_order_rollback" /\ events' = events]_vars
C19_Witness ==
    /\ resp.code = "inventory_error"
    /\ \E e \in DOMAIN events :
           /\ events[e].is_canceled
           /\ \E o \in DOMAIN orders : orders[o].event_id = e /\ orders[o].status = PENDING

\* C20: reserve, release and resize on one event are serialized: no update is
\* lost, that is, what each of them commits is what it would compute from the
\* event row as it is at the commit.
C20_NoLostUpdate ==
    [][\A r \in Slots :
          LET e == req[r].event_id IN
          /\ (create_order_reserve(r) /\ e \in DOMAIN events)
             => /\ events[e].available_tickets >= req[r].quantity
                /\ req[r].new_available = DecreaseValue(events[e], req[r].quantity)
          /\ (cancel_order_release(r) /\ e \in DOMAIN events)
             => req[r].new_available = IncreaseValue(events[e], req[r].quantity)
          /\ (update_event_commit(r) /\ e \in DOMAIN events)
             => req[r].new_available = ResizeValue(events[e], req[r].new_total)]_vars

\* C21: the status change of a cancellation and its inventory release are
\* atomic: the step that commits status CANCELED for an order that held
\* tickets (PENDING or PAID) also returns the order's quantity to the event,
\* so that no state shows the order CANCELED with its quantity not returned.
C21_CancelAtomic ==
    [][\A r \in Slots :
          LET o == req[r].order_id IN
          (/\ cancel_order_commit(r)
           /\ o \in DOMAIN orders
           /\ orders[o].status \in {PENDING, PAID}
           /\ orders[o].event_id \in DOMAIN events)
          => LET e == orders[o].event_id IN
             events'[e].available_tickets = IncreaseValue(events[e], orders[o].quantity)]_vars

\* C22: the notification of an order creation, payment or cancellation is
\* attempted only after the response that reports the committed change, the
\* change is in the database when it is attempted, and the attempt, whether
\* it delivers, returns false or raises, changes no order and no event.
\* (After a cancellation the order is CANCELED unless a concurrent payment
\* has overwritten the status since the cancellation committed.)
C22_NotifyAfterCommit ==
    [][\A outcome \in NotificationOutcomes :
          send_notification(outcome)
          => /\ resp.code \in {"created", "paid", "canceled"}
             /\ orders' = orders
             /\ events' = events
             /\ resp.code = "created" => DOMAIN orders # {}
             /\ resp.code = "paid"
                => \E o \in DOMAIN orders : /\ orders[o].status = PAID
                                            /\ orders[o].payment_id = resp.payment_id
                                            /\ orders[o].paid_at # NoTime
             /\ resp.code = "canceled"
                => \E o \in DOMAIN orders : orders[o].status \in {CANCELED, PAID}]_vars
C22_Witness ==
    /\ resp.code = "notification_failed"
    /\ AllIdle
    /\ \E o \in DOMAIN orders : orders[o].status = CANCELED /\ Len(orders[o].payment_id) = 2
    /\ \E e \in DOMAIN events : events[e].available_tickets = events[e].total_capacity

\* C23: the retry wrapper with max_attempts = n >= 1 invokes the wrapped
\* function at most n times; it invokes it again only after an invocation that
\* raised an exception of the configured classes; it returns the result of the
\* first invocation that does not raise; when all n invocations raise it ends
\* with the exception of the n-th; an exception of another class ends it at
\* once.
C23_Retry ==
    task.kind # "none" =>
        LET n == task.max_attempts
            k == task.calls
        IN  /\ k <= n
            /\ task.kind \in EmailKinds =>
                  /\ \A i \in 1 .. k - 1 : task.script[i] = "raise"
                  /\ task.pc = "call" => k < n /\ (k >= 1 => task.script[k] = "raise")
                  /\ task.pc = "returned" => /\ k >= 1
                                             /\ task.script[k] \in {"true", "false"}
                                             /\ task.result = <<task.script[k], k>>
                  /\ task.pc = "raised" => /\ task.result = <<task.script[k], k>>
                                           /\ \/ task.script[k] = "other"
                                              \/ task.script[k] = "raise" /\ k = n
C23_Witness ==
    /\ task.kind \in EmailKinds
    /\ task.pc = "raised"
    /\ task.max_attempts = MaxAttempts
    /\ task.result = <<"raise", MaxAttempts>>
    /\ task.slept = InitialDelay + InitialDelay * Backoff

\* C24: within one call of a retry-wrapped payment or refund task the gateway
\* is called at most once and the order's status is updated at most once.
C24_NoReexecution ==
    task.kind \in {"process_payment_async", "process_refund_async"} =>
        task.gateway_calls <= 1 /\ task.status_updates <= 1
C24_Witness ==
    /\ task.kind = "process_payment_async"
    /\ task.pc = "returned"
    /\ task.gateway_calls = 1
    /\ task.status_updates = 1
    /\ orders[1].status = PAID

\* C25: a notification whose delivery failed (the service returned false or
\* raised) is given up only after max_attempts attempts.
C25_FailedDeliveryRetried ==
    (/\ task.kind \in EmailKinds
     /\ task.pc \in {"returned", "raised"}
     /\ task.result[1] \in {"false", "raise"})
    => task.calls = task.max_attempts

\* C26: the gateway calls (PaymentService.process_payment, process_refund)
\* change no order and no event, whatever they return.
C26_GatewayFrame ==
    [][(payment_task_call \/ refund_task_call) => orders' = orders /\ events' = events]_vars
C26_Witness ==
    /\ task.kind = "process_payment_async"
    /\ task.pc = "apply"
    /\ task.gateway_result.success
    /\ task.order_id = 1
    /\ orders[1].status = PENDING
    /\ orders[1].payment_id = NoneId

\* C27: process_payment returns failure without a payment id on invalid
\* details (an unsupported method included), and on valid details success or
\* a decline, each with a generated payment id; never success on invalid
\* details.  (Invocations in which the gateway call itself raised are left
\* out.)
C27_AuthorizeShapes ==
    (/\ task.kind = "process_payment_async"
     /\ task.pc = "apply"
     /\ task.script[task.calls] \in {"ok", "fail"})
    => LET payment_result == task.gateway_result
           valid == validate_payment_details(task.payment_method, task.details_ok)
       IN  /\ ~valid => ~payment_result.success /\ payment_result.payment_id = NoneId
           /\ valid => payment_result.payment_id # NoneId

\* C28: of two cancel requests for one order that run concurrently at most
\* one succeeds and the release is applied once: a request commits CANCELED
\* and goes on to release the quantity only for an order that is not CANCELED
\* yet.
C28_CancelOnce ==
    [][\A r \in Slots :
          (cancel_order_commit(r) /\ req[r].order_id \in DOMAIN orders)
          => orders[req[r].order_id].status # CANCELED]_vars

\* C29: of two payment requests for one PENDING order that run concurrently at
\* most one authorization is applied: payment_id and paid_at of an order are
\* written once.
C29_PaidOnce ==
    \A o \in DOMAIN orders : orders[o].paid_at <= 1

\* C30: a payment request and a cancel request for one PENDING order that run
\* concurrently never leave the order PAID with its quantity released (the
\* payment is not applied to an order the cancel request has already set
\* CANCELED), and never leave it CANCELED after a successful authorization
\* without a refund reference (a cancel that commits on a PAID order records
\* the refund reference).
C30_PayVersusCancel ==
    [][\A r \in Slots :
          LET o == req[r].order_id IN
          /\ (\E p \in PaymentInputs :
                 /\ process_payment_apply(r, p[1], p[2])
                 /\ o \in DOMAIN orders
                 /\ process_payment(orders[o], p[1], p[2]).success)
             => orders[o].status # CANCELED
          /\ (cancel_order_commit(r) /\ o \in DOMAIN orders /\ orders[o].status = PAID)
             => req[r].new_payment_id # NoneId]_vars

\* C31: no overselling: for every event, in every reachable state, the
\* quantity held by the event's PENDING and PAID orders is at most
\* total_capacity.
C31_NoOverselling ==
    \A e \in DOMAIN events : ActiveQty(e) <= events[e].total_capacity

\* C32: the step of the refund task that takes an order from PAID to REFUNDED
\* leaves every event unchanged (available_tickets in particular: the
\* quantity is not returned) and changes nothing of the order but status and
\* payment_id: quantity, the event reference and paid_at keep their values,
\* and no other order changes.
C32_RefundFrame ==
    [][\A o \in DOMAIN orders :
          (/\ refund_task_apply
           /\ orders[o].status = PAID
           /\ o \in DOMAIN orders'
           /\ orders'[o].status = REFUNDED)
          => /\ events' = events
             /\ DOMAIN orders' = DOMAIN orders
             /\ orders'[o].quantity = orders[o].quantity
             /\ orders'[o].event_id = orders[o].event_id
             /\ orders'[o].paid_at = orders[o].paid_at
             /\ orders'[o].payment_id = RefundRef(task.payment_id, GeneratedRefund)
             /\ \A x \in DOMAIN orders \ {o} : orders'[x] = orders[x]]_vars
C32_Witness ==
    /\ task.kind = "process_refund_async"
    /\ task.pc = "returned"
    /\ task.status_updates = 1
    /\ orders[1].status = REFUNDED
    /\ orders[1].paid_at = 1
    /\ orders[1].quantity = 1
    /\ Len(orders[1].payment_id) = 2
    /\ events[1].available_tickets = 0
    /\ events[1].total_capacity = 1

\* C33: paid_at is written only by a transition into PAID: a new order has
\* no paid_at, and a step changes the paid_at of an order only when it takes
\* the order from another status to PAID; cancel, refund, a status update to
\* another status and PAID applied to an order that is PAID already leave it
\* unchanged.
C33_PaidAtOnlyOnTransition ==
    [][\A o \in DOMAIN orders' :
          IF o \in DOMAIN orders
          THEN orders'[o].paid_at # orders[o].paid_at
               => orders[o].status # PAID /\ orders'[o].status = PAID
          ELSE orders'[o].paid_at = NoTime]_vars

\* C34: a process-payment or cancel request for an existing order by a
\* principal who is neither its owner nor an admin is rejected in its first
\* step and changes no order and no event; a direct status update by a
\* principal who is not an admin is rejected and changes no order and no
\* event.
C34_Ownership ==
    [][/\ \A r \in Slots, o \in DOMAIN orders :
              (process_payment_check(r, o, "other") \/ cancel_order_check(r, o, "other"))
              => /\ req'[r].pc = "idle"
                 /\ resp'.code = "forbidden"
                 /\ orders' = orders
                 /\ events' = events
       /\ \A who \in Principals \ {"admin"}, o \in 1 .. MaxOrders,
             st \in OrderStatus \cup {Unset}, p \in AdminPaymentIds :
              update_order_by(who, o, st, p)
              => resp'.code = "forbidden" /\ orders' = orders /\ events' = events]_vars
C34_Witness ==
    /\ resp.code = "forbidden"
    /\ AllIdle
    /\ \E o \in DOMAIN orders :
           /\ orders[o].status = PENDING
           /\ orders[o].payment_id = NoneId
           /\ orders[o].paid_at = NoTime
           /\ orders[o].event_id \in DOMAIN events
           /\ events[orders[o].event_id].available_tickets
                  = events[orders[o].event_id].total_capacity - orders[o].quantity

\* C35: an event is deleted only when no order references it, under any
\* interleaving of delete-event with create-order, and every order record
\* references an event that exists.
C35_ReferentialIntegrity ==
    [][/\ \A r \in Slots :
              (delete_event_commit(r) /\ EventFound(req[r].event_id))
              => ~has_orders(req[r].event_id)
       /\ \A o \in DOMAIN orders' : orders'[o].event_id \in DOMAIN events']_vars

\* b to the power i
RECURSIVE Pow(_, _)
Pow(b, i) == IF i = 0 THEN 1 ELSE b * Pow(b, i - 1)

\* C36: under the retry wrapper with (max_attempts = n, delay = d, backoff =
\* b) the i-th sleep lasts d * b^(i-1); before the next invocation the
\* wrapper has slept once per invocation made (all of which raised), after
\* the final invocation it has slept once per earlier invocation and not
\* again, and it never sleeps more than n - 1 times.
C36_BackoffSchedule ==
    task.kind # "none" =>
        LET n == task.max_attempts
            k == Len(task.sleeps)
        IN  /\ k <= n - 1
            /\ \A i \in 1 .. k : task.sleeps[i] = task.delay * Pow(task.backoff, i - 1)
            /\ task.pc = "call" => k = task.calls /\ k < n
            /\ task.pc \in {"apply", "returned", "raised"} => k = task.calls - 1
C36_Witness ==
    /\ task.kind \in EmailKinds
    /\ task.max_attempts = MaxAttempts
    /\ task.delay = MaxDelay
    /\ task.backoff = MaxBackoff
    /\ task.pc = "raised"
    /\ task.calls = MaxAttempts
    /\ task.result = <<"raise", MaxAttempts>>
    /\ task.sleeps = <<MaxDelay, MaxDelay * MaxBackoff>>

====
